---- MODULE Spec2Model ----
(***************************************************************************)
(* Model of src/main.py: the HTML -> fillable-PDF pipeline.                *)
(*                                                                         *)
(*   make_overlay_pdf  (lines 56-100)  field boxes -> AcroForm widgets     *)
(*   merge_pdfs        (lines 103-111) overlay pages merged onto base      *)
(*   __main__ / run    (lines 114-149) the command-line program            *)
(*                                                                         *)
(* Numbers.  The code computes in Python floats.  The model computes the   *)
(* same expressions in exact fixed point: a CSS pixel value v is stored as *)
(* v * PxUnit and a PDF point value p as p * PtUnit.  PtUnit = 4 * 127     *)
(* makes both the scale 72/96 and the A4 height 297 mm = 297 * 72 / 25.4   *)
(* pt whole numbers; PxUnit = 3 lets a box be 80/3 px or 100/3 px wide,    *)
(* which convert to exactly 20 pt and 25 pt.  Float rounding is not        *)
(* modelled.                                                               *)
(***************************************************************************)
EXTENDS Integers, Sequences, FiniteSets, TLC

VARIABLES
    entry,      \* which operation of main.py this run exercises
    pc,         \* position inside that operation
    fields,     \* make_overlay_pdf: the `fields` argument
    idx,        \* make_overlay_pdf: 1-based position of the `for f in fields` loop
    widgets,    \* make_overlay_pdf: form fields added to c.acroform, in order
    rects,      \* make_overlay_pdf: rectangles drawn by c.rect in the except branch
    failed,     \* make_overlay_pdf: loop positions whose first widget call raised
    saved,      \* make_overlay_pdf: pages of the written overlay file (<<>> until c.save())
    files,      \* merge_pdfs: the file system, path -> file
    files0,     \* merge_pdfs: the file system as it was when merge_pdfs was called
    margs,      \* merge_pdfs: its three path arguments
    base,       \* merge_pdfs: pages of the PdfReader object `base`
    overlay,    \* merge_pdfs: pages of the PdfReader object `overlay`
    i,          \* merge_pdfs: 0-based index of the enumerate loop
    argc,       \* __main__: len(sys.argv)
    exitCode,   \* __main__: process exit status (-1 while running)
    stdout,     \* __main__: what was printed
    written     \* __main__: artifacts written by run(), in order

vars == <<entry, pc, fields, idx, widgets, rects, failed, saved,
          files, files0, margs, base, overlay, i,
          argc, exitCode, stdout, written>>

overlayVars == <<fields, idx, widgets, rects, failed, saved>>
mergeVars   == <<files, files0, margs, base, overlay, i>>
mainVars    == <<argc, exitCode, stdout, written>>

(***************************************************************************)
(* Bounds of the model.                                                    *)
(***************************************************************************)
MaxFields == 2
MaxBasePages == 3
MaxOverlayPages == 2
MaxArgc == 2

(***************************************************************************)
(* Units and constants.                                                    *)
(***************************************************************************)
PxUnit == 3
PtUnit == 4 * 127

\* p points, in model units
Pt(p) == p * PtUnit

\* A4_WIDTH_PT, A4_HEIGHT_PT = A4 ; reportlab's A4 is (210 mm, 297 mm), 1 mm = 72/25.4 pt
A4_HEIGHT_PT == (297 * 72 * PtUnit * 10) \div 254

\* CSS_PX_TO_PT = 72.0 / 96.0, applied to a pixel value v: v * CSS_PX_TO_PT
CSS_PX_TO_PT_NUM == 72
CSS_PX_TO_PT_DEN == 96
MulPxToPt(v) == (v * CSS_PX_TO_PT_NUM * PtUnit) \div (CSS_PX_TO_PT_DEN * PxUnit)

\* the literals of lines 79-80
W_TEST == 20
W_MIN == 40
H_TEST == 10
H_MIN == 14

Max(a, b) == IF a >= b THEN a ELSE b
Min(a, b) == IF a <= b THEN a ELSE b

(***************************************************************************)
(* Inputs of make_overlay_pdf: the field dictionaries that page.evaluate   *)
(* returns (lines 35-51).  x, y, width, height are pixel values times      *)
(* PxUnit.                                                                 *)
(***************************************************************************)
Kinds == { [tag |-> "input",    type |-> "checkbox"],
           [tag |-> "input",    type |-> "text"],
           [tag |-> "select",   type |-> "select-one"],
           [tag |-> "textarea", type |-> "textarea"] }
Names == {"email", "input_0"}
Xs == {0, 300}                    \* 0 px, 100 px
Ys == {0, 150}                    \* 0 px, 50 px
Widths == {0, 60, 80, 100, 600}   \* 0, 20, 80/3, 100/3, 200 px -> 0, 15, 20, 25, 150 pt
Heights == {0, 36, 40, 60}        \* 0, 12, 40/3, 20 px       -> 0, 9, 10, 15 pt

Field(k, n, x, y, w, h) ==
    [tag |-> k.tag, type |-> k.type, name |-> n, x |-> x, y |-> y, width |-> w, height |-> h]

\* every combination of control, name and box
AllFields ==
    { Field(k, n, x, y, w, h) :
        k \in Kinds, n \in Names, x \in Xs, y \in Ys, w \in Widths, h \in Heights }

\* fields of the multi-field documents: a zero-size box at the origin or the
\* 200 x 20 px box at (100, 50)
DocFields ==
    { Field(k, n, 0, 0, 0, 0) : k \in Kinds, n \in Names }
    \cup { Field(k, n, 300, 150, 600, 60) : k \in Kinds, n \in Names }

SeqsUpTo(S, n) == UNION { [1..m -> S] : m \in 0..n }

FieldLists == SeqsUpTo(DocFields, MaxFields) \cup { <<f>> : f \in AllFields }

(***************************************************************************)
(* make_overlay_pdf, lines 65-80: the per-field geometry.                  *)
(***************************************************************************)
x_pt(f) == MulPxToPt(f.x)
y_pt_css(f) == f.y
\* h_pt and w_pt as first assigned (lines 69-70)
h_pt(f) == MulPxToPt(f.height)
w_pt(f) == MulPxToPt(f.width)

\* line 72, with the flip taken from the raw pixel height
y_pt_raw_height(f) ==
    A4_HEIGHT_PT - MulPxToPt(y_pt_css(f)) - (f.height * PtUnit) \div PxUnit
\* line 72, with the flip taken from the height after line 80
y_pt_after_minimum(f) ==
    A4_HEIGHT_PT - MulPxToPt(y_pt_css(f))
        - (IF h_pt(f) < Pt(H_TEST) THEN Max(h_pt(f), Pt(H_MIN)) ELSE h_pt(f))
\* line 72: y_pt = A4_HEIGHT_PT - (y_pt_css * CSS_PX_TO_PT) - h_pt
y_pt(f) == A4_HEIGHT_PT - MulPxToPt(y_pt_css(f)) - h_pt(f)

\* line 79 left out
sanitize_w_missing(w) == w
\* line 79: if w_pt < 20: w_pt = max(w_pt, 40)
sanitize_w(w) == IF w < Pt(W_TEST) THEN Max(w, Pt(W_MIN)) ELSE w

\* line 80 as a single clamp, h_pt = max(h_pt, 14)
sanitize_h_clamp(h) == Max(h, Pt(H_MIN))
\* line 80: if h_pt < 10: h_pt = max(h_pt, 14)
sanitize_h(h) == IF h < Pt(H_TEST) THEN Max(h, Pt(H_MIN)) ELSE h

\* line 83: tag == 'input' and typ in ('checkbox',)
IsCheckbox(f) == f.tag = "input" /\ f.type \in {"checkbox"}

\* line 85: form.checkbox(name=name, x=x_pt, y=y_pt, size=min(w_pt, h_pt), checked=False)
CheckboxWidget(f) ==
    LET size == Min(sanitize_w(w_pt(f)), sanitize_h(h_pt(f)))
    IN  [kind |-> "checkbox", name |-> f.name, tooltip |-> "",
         x |-> x_pt(f), y |-> y_pt(f), width |-> size, height |-> size,
         style |-> "default"]

\* lines 91-93 (style "underlined") and line 97 (style "bare")
TextWidget(f, style) ==
    [kind |-> "text", name |-> f.name, tooltip |-> f.name,
     x |-> x_pt(f), y |-> y_pt(f),
     width |-> sanitize_w(w_pt(f)), height |-> sanitize_h(h_pt(f)),
     style |-> style]

\* line 96: c.rect(x_pt, y_pt, w_pt, h_pt, stroke=1, fill=0)
Rect(f) ==
    [x |-> x_pt(f), y |-> y_pt(f),
     width |-> sanitize_w(w_pt(f)), height |-> sanitize_h(h_pt(f))]

\* a form that keeps one field per name
AddFieldUniqueName(ws, w) ==
    IF \E k \in 1..Len(ws) : ws[k].name = w.name THEN ws ELSE Append(ws, w)
\* form.checkbox / form.textfield add one field to the form, whatever its name
AddField(ws, w) == Append(ws, w)

(***************************************************************************)
(* make_overlay_pdf, lines 62-100, one loop iteration per step.  Whether a *)
(* ReportLab call raises is an input of the step.                          *)
(***************************************************************************)
InitOverlay ==
    /\ entry = "make_overlay_pdf"
    /\ pc = "overlay_loop"
    /\ fields \in FieldLists
    /\ idx = 1
    /\ widgets = <<>>
    /\ rects = <<>>
    /\ failed = {}
    /\ saved = <<>>

\* lines 83-85: the checkbox branch; an exception of form.checkbox is not caught
OverlayCheckbox ==
    /\ pc = "overlay_loop"
    /\ idx <= Len(fields)
    /\ IsCheckbox(fields[idx])
    /\ \E raises \in BOOLEAN :
         IF raises
         THEN /\ pc' = "overlay_raised"
              /\ failed' = failed \cup {idx}
              /\ UNCHANGED <<idx, widgets>>
         ELSE /\ widgets' = AddField(widgets, CheckboxWidget(fields[idx]))
              /\ idx' = idx + 1
              /\ UNCHANGED <<pc, failed>>
    /\ UNCHANGED <<entry, fields, rects, saved, mergeVars, mainVars>>

\* lines 86-97: the text branch with its try / except
OverlayTextfield ==
    /\ pc = "overlay_loop"
    /\ idx <= Len(fields)
    /\ ~IsCheckbox(fields[idx])
    /\ \E styledRaises \in BOOLEAN, bareRaises \in BOOLEAN :
         IF ~styledRaises
         THEN /\ widgets' = AddField(widgets, TextWidget(fields[idx], "underlined"))
              /\ idx' = idx + 1
              /\ UNCHANGED <<pc, failed, rects>>
         ELSE /\ failed' = failed \cup {idx}
              /\ rects' = Append(rects, Rect(fields[idx]))
              /\ IF bareRaises
                 THEN /\ pc' = "overlay_raised"
                      /\ UNCHANGED <<idx, widgets>>
                 ELSE /\ widgets' = AddField(widgets, TextWidget(fields[idx], "bare"))
                      /\ idx' = idx + 1
                      /\ UNCHANGED pc
    /\ UNCHANGED <<entry, fields, saved, mergeVars, mainVars>>

\* lines 99-100: c.showPage(); c.save() -- one page carrying every widget
OverlaySave ==
    /\ pc = "overlay_loop"
    /\ idx = Len(fields) + 1
    /\ saved' = << [widgets |-> widgets, rects |-> rects] >>
    /\ pc' = "overlay_saved"
    /\ UNCHANGED <<entry, fields, idx, widgets, rects, failed, mergeVars, mainVars>>

(***************************************************************************)
(* merge_pdfs, lines 103-111.  A document is a sequence of pages, a page a *)
(* sequence of content layers; a file holds a document or does not exist.  *)
(***************************************************************************)
Paths == {"base_render.pdf", "overlay.pdf", "final_fill.pdf"}

NoFile == [exists |-> FALSE, pages |-> <<>>]
File(doc) == [exists |-> TRUE, pages |-> doc]

\* the n-page document rendered from `src`: page k holds the one layer (src, k), k from 0
Doc(src, n) == [k \in 1..n |-> << [src |-> src, page |-> k - 1] >>]

\* Python list indexing seq[k]: a negative k counts from the end; IndexError outside
PyIndexInRange(n, k) == (0 <= k /\ k < n) \/ (k < 0 /\ 0 - k <= n)
PyIndex(seq, k) == IF k < 0 THEN seq[Len(seq) + k + 1] ELSE seq[k + 1]

\* line 108 with the last overlay page taken for every base page
overlay_index_last(j, n) == n - 1
\* line 108: min(i, len(overlay.pages)-1)
overlay_index(j, n) == Min(j, n - 1)

\* line 109-110: PageMerge(page).add(overlay_page).render() -- the page object
\* keeps its own content and gains the overlay page as a further layer
PageMergeRender(page, overlay_page) == page \o overlay_page

\* line 111 with the merged document also saved over the base file
PdfWriterWriteOverBase(fs, path, doc) ==
    [fs EXCEPT ![path] = File(doc), !["base_render.pdf"] = File(doc)]
\* line 111: PdfWriter().write(final_out_path, base)
PdfWriterWrite(fs, path, doc) == [fs EXCEPT ![path] = File(doc)]

InitMerge ==
    /\ entry = "merge_pdfs"
    /\ pc = "merge_read"
    /\ \E nb \in 1..MaxBasePages, no \in 0..MaxOverlayPages, final \in Paths :
         /\ files = [p \in Paths |->
                       CASE p = "base_render.pdf" -> File(Doc("base", nb))
                         [] p = "overlay.pdf"     -> File(Doc("overlay", no))
                         [] OTHER                 -> NoFile]
         /\ margs = [base_pdf_path |-> "base_render.pdf",
                     overlay_pdf_path |-> "overlay.pdf",
                     final_out_path |-> final]
    /\ files0 = files
    /\ base = <<>>
    /\ overlay = <<>>
    /\ i = 0

\* lines 104-105: base = PdfReader(base_pdf_path); overlay = PdfReader(overlay_pdf_path)
MergeRead ==
    /\ pc = "merge_read"
    /\ base' = files[margs.base_pdf_path].pages
    /\ overlay' = files[margs.overlay_pdf_path].pages
    /\ pc' = "merge_loop"
    /\ UNCHANGED <<entry, files, files0, margs, i, overlayVars, mainVars>>

\* lines 106-110: one iteration of `for i, page in enumerate(base.pages)`
MergePage ==
    /\ pc = "merge_loop"
    /\ i < Len(base)
    /\ LET k == overlay_index(i, Len(overlay))
       IN  IF PyIndexInRange(Len(overlay), k)
           THEN /\ base' = [base EXCEPT ![i + 1] = PageMergeRender(@, PyIndex(overlay, k))]
                /\ i' = i + 1
                /\ UNCHANGED pc
           ELSE /\ pc' = "merge_IndexError"
                /\ UNCHANGED <<base, i>>
    /\ UNCHANGED <<entry, files, files0, margs, overlay, overlayVars, mainVars>>

\* line 111, reached when the loop has consumed every base page
MergeWrite ==
    /\ pc = "merge_loop"
    /\ i = Len(base)
    /\ files' = PdfWriterWrite(files, margs.final_out_path, base)
    /\ pc' = "merge_done"
    /\ UNCHANGED <<entry, files0, margs, base, overlay, i, overlayVars, mainVars>>

(***************************************************************************)
(* The program, lines 114-149.                                             *)
(***************************************************************************)
\* the names bound at module level when run() is entered (lines 13-115)
ModuleGlobals ==
    {"sys", "os", "asyncio", "json", "Path", "async_playwright", "canvas", "A4",
     "PdfReader", "PdfWriter", "PageMerge", "A4_WIDTH_PT", "A4_HEIGHT_PT",
     "CSS_PX_TO_PT", "html_path", "out_pdf", "render_html_to_pdf",
     "make_overlay_pdf", "merge_pdfs", "run"}

\* the four artifacts in the order run() writes them (lines 123, 125, 129, 132)
Artifacts == <<"base_render.pdf", "fields.json", "overlay.pdf", "final_fill.pdf">>

InitMain ==
    /\ entry = "main"
    /\ pc = "main"
    /\ argc \in 1..MaxArgc
    /\ exitCode = -1
    /\ stdout = <<>>
    /\ written = <<>>

\* lines 142-149: the argument check
MainCheckArgs ==
    /\ pc = "main"
    /\ IF argc < 2
       THEN /\ stdout' = Append(stdout, "Usage: python run.py path/to/file.html")
            /\ exitCode' = 1
            /\ pc' = "exited"
       ELSE /\ pc' = "run"
            /\ UNCHANGED <<stdout, exitCode>>
    /\ UNCHANGED <<entry, argc, written, overlayVars, mergeVars>>

\* lines 115-139: run().  Its first statement reads the global out_dir; a name
\* that is not bound raises NameError, which nothing catches: the interpreter
\* prints the traceback and exits with status 1.
Run ==
    /\ pc = "run"
    /\ IF "out_dir" \in ModuleGlobals
       THEN /\ written' = Artifacts
            /\ stdout' = Append(stdout, "Done. Files created in:")
            /\ exitCode' = 0
       ELSE /\ exitCode' = 1
            /\ UNCHANGED <<written, stdout>>
    /\ pc' = "exited"
    /\ UNCHANGED <<entry, argc, overlayVars, mergeVars>>

(***************************************************************************)
(* The specification: one of the three operations is entered and runs.     *)
(***************************************************************************)
IdleOverlay ==
    /\ fields = <<>> /\ idx = 1 /\ widgets = <<>> /\ rects = <<>>
    /\ failed = {} /\ saved = <<>>
IdleMerge ==
    /\ files = [p \in Paths |-> NoFile] /\ files0 = files
    /\ margs = [base_pdf_path |-> "base_render.pdf",
                overlay_pdf_path |-> "overlay.pdf",
                final_out_path |-> "final_fill.pdf"]
    /\ base = <<>> /\ overlay = <<>> /\ i = 0
IdleMain ==
    /\ argc = 1 /\ exitCode = -1 /\ stdout = <<>> /\ written = <<>>

Init ==
    \/ InitOverlay /\ IdleMerge /\ IdleMain
    \/ InitMerge /\ IdleOverlay /\ IdleMain
    \/ InitMain /\ IdleOverlay /\ IdleMerge

Next ==
    \/ OverlayCheckbox
    \/ OverlayTextfield
    \/ OverlaySave
    \/ MergeRead
    \/ MergePage
    \/ MergeWrite
    \/ MainCheckArgs
    \/ Run

Spec == Init /\ [][Next]_vars

(***************************************************************************)
(* Properties.                                                             *)
(***************************************************************************)
Emitted == 1..Len(widgets)
BaseIn == files0[margs.base_pdf_path].pages
OverlayIn == files0[margs.overlay_pdf_path].pages
TopEdge(f) == A4_HEIGHT_PT - MulPxToPt(f.y)

\* C1 (as claimed): every emitted widget is at least 40 pt wide and 14 pt high.
C1_AtLeast40x14 ==
    \A k \in Emitted : widgets[k].width >= Pt(40) /\ widgets[k].height >= Pt(14)

\* C1 (amended): every emitted widget has positive width and height; a text
\* widget is at least 20 pt wide and 10 pt high (a converted width in [20, 40)
\* or height in [10, 14) is emitted as it is), and a checkbox is a square of
\* side at least 10 pt.
C1_AtLeast20x10 ==
    \A k \in Emitted :
        /\ widgets[k].width > 0 /\ widgets[k].height > 0
        /\ widgets[k].kind = "text" =>
               widgets[k].width >= Pt(20) /\ widgets[k].height >= Pt(10)
        /\ widgets[k].kind = "checkbox" =>
               widgets[k].width = widgets[k].height /\ widgets[k].width >= Pt(10)

\* C1 witness: a zero-size box has been emitted as a 40 x 14 pt text widget.
C1_Witness ==
    \E k \in Emitted :
        /\ fields[k].width = 0 /\ fields[k].height = 0
        /\ widgets[k].kind = "text"
        /\ widgets[k].width = Pt(40) /\ widgets[k].height = Pt(14)

\* C2: the minimum-size policy has two thresholds: a converted width below 20 pt
\* becomes exactly 40 pt and one of 20 pt or more is unchanged; a converted
\* height below 10 pt becomes exactly 14 pt and one of 10 pt or more is
\* unchanged; each is adjusted without regard to the other (a checkbox, which
\* has one size, takes the smaller of the two adjusted values).
C2_TwoThreshold ==
    \A k \in Emitted :
        LET cw == w_pt(fields[k])
            ch == h_pt(fields[k])
            aw == IF cw < Pt(20) THEN Pt(40) ELSE cw
            ah == IF ch < Pt(10) THEN Pt(14) ELSE ch
        IN  IF widgets[k].kind = "text"
            THEN widgets[k].width = aw /\ widgets[k].height = ah
            ELSE widgets[k].width = Min(aw, ah) /\ widgets[k].height = Min(aw, ah)

\* C2 witness: a 15 pt wide, 15 pt high box has been emitted 40 pt wide and
\* still 15 pt high.
C2_Witness ==
    \E k \in Emitted :
        /\ widgets[k].kind = "text"
        /\ w_pt(fields[k]) = Pt(15) /\ widgets[k].width = Pt(40)
        /\ h_pt(fields[k]) = Pt(15) /\ widgets[k].height = Pt(15)

\* C3: every widget is placed at x_pt = bbox.x * 72/96 and
\* y_pt = A4 height - bbox.y * 72/96 - bbox.height * 72/96: the flip uses the
\* converted height as it was before the minimum-size step, which changes
\* neither coordinate.
C3_Placement ==
    \A k \in Emitted :
        /\ widgets[k].x * 96 * PxUnit = fields[k].x * 72 * PtUnit
        /\ (A4_HEIGHT_PT - widgets[k].y) * 96 * PxUnit
               = (fields[k].y + fields[k].height) * 72 * PtUnit

\* C3 witness: the box at (100, 50) px of height 12 px (9 pt, raised to 14 pt)
\* has been placed at x = 75 pt, y = A4 height - 37.5 pt - 9 pt.
C3_Witness ==
    \E k \in Emitted :
        /\ fields[k].x = 100 * PxUnit /\ fields[k].y = 50 * PxUnit
        /\ fields[k].height = 12 * PxUnit
        /\ widgets[k].height = Pt(14)
        /\ widgets[k].x = Pt(75)
        /\ widgets[k].y = A4_HEIGHT_PT - (Pt(75) \div 2) - Pt(9)

\* C4 (as claimed): the top edge of every widget, y_pt + emitted height, is the
\* top edge of its control, A4 height - bbox.y * 72/96.
C4_TopEdgeAligned ==
    \A k \in Emitted : widgets[k].y + widgets[k].height = TopEdge(fields[k])

\* C4 (amended): the bottom edge of every widget is the bottom edge of its
\* control, y_pt = A4 height - bbox.y * 72/96 - bbox.height * 72/96; the top
\* edges agree exactly when the emitted height is the converted height, and
\* otherwise differ by emitted height minus converted height.
C4_BottomEdgeAligned ==
    \A k \in Emitted :
        /\ widgets[k].y = TopEdge(fields[k]) - h_pt(fields[k])
        /\ (widgets[k].y + widgets[k].height = TopEdge(fields[k]))
               <=> (widgets[k].height = h_pt(fields[k]))

\* C4 witness: a control 9 pt high has been emitted 14 pt high with its top edge
\* 5 pt above the control's.
C4_Witness ==
    \E k \in Emitted :
        /\ h_pt(fields[k]) = Pt(9)
        /\ widgets[k].height = Pt(14)
        /\ widgets[k].y + widgets[k].height = TopEdge(fields[k]) + Pt(5)

\* C5: a field list of length N yields exactly N widgets on the one overlay
\* page, the k-th widget made from the k-th field; while the loop runs, one
\* widget has been emitted per field passed.
C5_OneWidgetPerField ==
    /\ pc = "overlay_loop" => Len(widgets) = idx - 1
    /\ pc = "overlay_saved" =>
           /\ Len(saved) = 1
           /\ Len(saved[1].widgets) = Len(fields)
           /\ \A k \in 1..Len(fields) :
                  /\ saved[1].widgets[k].name = fields[k].name
                  /\ saved[1].widgets[k].x * 96 * PxUnit = fields[k].x * 72 * PtUnit
                  /\ (saved[1].widgets[k].kind = "checkbox")
                         <=> (fields[k].tag = "input" /\ fields[k].type = "checkbox")

\* C5 witness: a saved overlay of two widgets made from two fields of the same
\* name, the first of them a zero-size box.
C5_Witness ==
    /\ pc = "overlay_saved"
    /\ Len(fields) = 2
    /\ fields[1].name = fields[2].name
    /\ fields[1].width = 0 /\ fields[1].height = 0
    /\ Len(saved[1].widgets) = 2

\* C6: with an overlay of at least one page merge_pdfs does not raise, and the
\* final document has the base's page count, page i holding base page i
\* followed by overlay page min(i, O - 1).
C6_MergeResult ==
    (entry = "merge_pdfs" /\ Len(OverlayIn) >= 1) =>
        /\ pc # "merge_IndexError"
        /\ pc = "merge_done" =>
               LET out == files[margs.final_out_path].pages
               IN  /\ Len(out) = Len(BaseIn)
                   /\ \A j \in 0..(Len(BaseIn) - 1) :
                          out[j + 1] =
                              BaseIn[j + 1]
                                  \o OverlayIn[(IF j < Len(OverlayIn) - 1
                                                THEN j ELSE Len(OverlayIn) - 1) + 1]

\* C6 witness: a finished merge of a 3-page base with a 2-page overlay.
C6_Witness ==
    /\ pc = "merge_done"
    /\ Len(BaseIn) = 3 /\ Len(OverlayIn) = 2
    /\ Len(files[margs.final_out_path].pages) = 3

\* C7 (as claimed): with fewer overlay pages than base pages, the choice of the
\* overlay page never raises.
C7_NeverRaises ==
    (entry = "merge_pdfs" /\ Len(BaseIn) >= 1 /\ Len(OverlayIn) < Len(BaseIn)) =>
        pc # "merge_IndexError"

\* C8 (as claimed): after a merge the base file and the overlay file are as
\* they were before it, whatever the three paths.
C8_InputsUnchanged ==
    pc = "merge_done" =>
        /\ files[margs.base_pdf_path] = files0[margs.base_pdf_path]
        /\ files[margs.overlay_pdf_path] = files0[margs.overlay_pdf_path]

\* C8 (amended): merge_pdfs changes no file but the one at final_out_path: the
\* base and overlay files are unchanged when final_out_path is neither of
\* them, and the one final_out_path names is overwritten by the final document.
C8_OnlyFinalWritten ==
    entry = "merge_pdfs" =>
        /\ \A p \in Paths \ {margs.final_out_path} : files[p] = files0[p]
        /\ pc = "merge_done" => files[margs.final_out_path] = File(base)
        /\ pc # "merge_done" => files = files0

\* C8 witness: a finished merge into a third path, whose result differs from
\* the base file still on disk.
C8_Witness ==
    /\ pc = "merge_done"
    /\ margs.final_out_path = "final_fill.pdf"
    /\ files[margs.base_pdf_path] = files0[margs.base_pdf_path]
    /\ files["final_fill.pdf"].exists
    /\ files["final_fill.pdf"] # files[margs.base_pdf_path]

\* C9 (as claimed): a field whose widget call raised still has exactly one
\* widget, of bare style, and make_overlay_pdf does not raise, for checkbox and
\* text fields alike.
C9_FallbackNeverPropagates ==
    entry = "make_overlay_pdf" =>
        /\ pc # "overlay_raised"
        /\ \A k \in failed : k <= Len(widgets) /\ widgets[k].style = "bare"

\* C10 (as claimed): started with a source-path argument the program ends
\* successfully with the four artifacts written in the order base render,
\* field list, overlay, final; started without, it prints the usage line and
\* exits non-zero with nothing written.
C10_RunWritesArtifacts ==
    (entry = "main" /\ pc = "exited") =>
        IF argc >= 2
        THEN exitCode = 0 /\ written = Artifacts
        ELSE exitCode # 0 /\ written = <<>> /\ Len(stdout) = 1

====
